---- MODULE Spec2Model ----
(***************************************************************************)
(* Model of kuaizhuangtu.py: draw_rectangles_by_ratio and the recursive    *)
(* area splitting of layout_rectangles_exact.                              *)
(*                                                                         *)
(* Numbers are exact rationals [n, d] in lowest terms (d > 0); the Python  *)
(* floats are modelled by the real numbers they approximate.  A ratio is   *)
(* k / Denom for an integer k.  The Python call stack of split_area is the *)
(* variable stack (top of the stack = head), one frame per pending call.   *)
(***************************************************************************)
EXTENDS Integers, Sequences, FiniteSets

\* ---------------------------------------------------------------- bounds
MaxN == 4          \* longest ratio list
Denom == 7         \* ratios are multiples of 1 / Denom
MaxUnit == 4       \* a ratio is 1 or at most MaxUnit / Denom
MaxLabels == 4     \* longest label list

\* ------------------------------------------------------- exact arithmetic
Abs(a) == IF a < 0 THEN -a ELSE a

RECURSIVE GCD(_, _)
GCD(a, b) == IF b = 0 THEN a ELSE GCD(b, a % b)

Frac(n, d) ==
    LET g == GCD(Abs(n), d)
    IN  [n |-> n \div g, d |-> d \div g]

Zero == [n |-> 0, d |-> 1]
One == [n |-> 1, d |-> 1]

RAdd(a, b) ==
    LET g == GCD(a.d, b.d)
    IN  Frac(a.n * (b.d \div g) + b.n * (a.d \div g), (a.d \div g) * b.d)

RNeg(a) == [n |-> -a.n, d |-> a.d]

RSub(a, b) == RAdd(a, RNeg(b))

RMul(a, b) ==
    LET g1 == GCD(Abs(a.n), b.d)
        g2 == GCD(Abs(b.n), a.d)
    IN  Frac((a.n \div g1) * (b.n \div g2), (a.d \div g2) * (b.d \div g1))

\* a / b for b # 0
RDiv(a, b) ==
    IF b.n > 0 THEN RMul(a, [n |-> b.d, d |-> b.n])
               ELSE RMul(a, [n |-> -b.d, d |-> -b.n])

RAbs(a) == [n |-> Abs(a.n), d |-> a.d]

RLe(a, b) ==
    LET g == GCD(a.d, b.d)
    IN  a.n * (b.d \div g) <= b.n * (a.d \div g)

RLt(a, b) == RLe(a, b) /\ a # b

RGe(a, b) == RLe(b, a)

RGt(a, b) == RLt(b, a)

RMax(a, b) == IF RLe(a, b) THEN b ELSE a

\* ------------------------------------------------------ program constants
RelTolInv == 1000000000                 \* rel_tol = 1e-9 = 1 / RelTolInv
Threshold == [n |-> 7, d |-> 10]        \* 0.7
Two == [n |-> 2, d |-> 1]               \* the divisor in total / 2

None == <<>>

\* --------------------------------------------------------------- helpers
\* math.isclose(a, b, rel_tol=1e-9): abs(a-b) <= rel_tol * max(abs(a), abs(b))
\* isclose with the tolerance left out of the comparison: diff <= max
IsClose_NoTolerance(a, b) ==
    LET diff == RAbs(RSub(a, b))
        m == RMax(RAbs(a), RAbs(b))
    IN  diff.n * m.d <= m.n * diff.d

\* with rel_tol = 1 / RelTolInv; for diff = p/q and the maximum m = u/v,
\* p/q <= u / (v * RelTolInv) is p * v <= (u * q) \div RelTolInv in integers
IsClose(a, b) ==
    LET diff == RAbs(RSub(a, b))
        m == RMax(RAbs(a), RAbs(b))
    IN  diff.n * m.d <= (m.n * diff.d) \div RelTolInv

\* sum(rs[i] for i in idx), idx a sequence of 1-based positions
RECURSIVE SumOver(_, _)
SumOver(rs, idx) ==
    IF idx = <<>> THEN Zero
    ELSE RAdd(rs[Head(idx)], SumOver(rs, Tail(idx)))

\* sum(ratios)
SumAll(rs) == SumOver(rs, [i \in 1..Len(rs) |-> i])

\* indices.sort(key=lambda i: ratios[i], reverse=True) on list(range(N)):
\* a stable descending sort, so equal ratios keep their input order.
\* Rank(rs, i) is the number of indices placed before i.
Rank(rs, i) ==
    Cardinality({j \in 1..Len(rs) :
                    RGt(rs[j], rs[i]) \/ (rs[j] = rs[i] /\ j < i)})

SortedIndices(rs) ==
    [p \in 1..Len(rs) |-> CHOOSE i \in 1..Len(rs) : Rank(rs, i) = p - 1]

\* The for loop of split_area from iteration i (0-based) on, with the
\* running sum cumulative; the value is split_point.
RECURSIVE SplitLoop(_, _, _, _, _)
SplitLoop(rs, indices, target, i, cumulative) ==
    IF i >= Len(indices) - 1
    THEN Len(indices) - 1                                  \* for ... else
    ELSE LET cum == RAdd(cumulative, rs[indices[i + 1]])
         IN  IF RGe(cum, target)
             THEN IF i + 1 < Len(indices) - 1
                     /\ RLe(RAbs(RSub(cum, target)),
                            RAbs(RSub(RAdd(cum, rs[indices[i + 2]]), target)))
                  THEN i + 1
                  ELSE i + 1
             ELSE SplitLoop(rs, indices, target, i + 1, cum)

SplitPoint(rs, indices) ==
    SplitLoop(rs, indices, RDiv(SumOver(rs, indices), Two), 0, Zero)

\* Python slice bound: a negative bound counts from the end, then clamps
SliceBound(k, len) ==
    LET b == IF k < 0 THEN k + len ELSE k
    IN  IF b < 0 THEN 0 ELSE IF b > len THEN len ELSE b

\* indices[:k]
LeftIndices(indices, k) == SubSeq(indices, 1, SliceBound(k, Len(indices)))

\* indices[k + 1:], a slice that drops the index at the split point
RightIndices_SkipOne(indices, k) ==
    SubSeq(indices, SliceBound(k + 1, Len(indices)) + 1, Len(indices))

\* indices[k:]
RightIndices(indices, k) ==
    SubSeq(indices, SliceBound(k, Len(indices)) + 1, Len(indices))

\* width >= height, a cut of the wider side without the 0.7 bias
IsVerticalSplit_Wider(width, height) == RGe(width, height)

\* width >= height * 0.7
IsVerticalSplit(width, height) == RGe(width, RMul(height, Threshold))

\* width * left_ratio, the division by the region's total left out
FirstShare_Unnormalised(extent, left_ratio, right_ratio) ==
    RMul(extent, left_ratio)

\* width * left_ratio / (left_ratio + right_ratio), also used for the height
FirstShare(extent, left_ratio, right_ratio) ==
    RDiv(RMul(extent, left_ratio), RAdd(left_ratio, right_ratio))

Region(x, y, width, height, indices, depth) ==
    [x |-> x, y |-> y, width |-> width, height |-> height,
     indices |-> indices, depth |-> depth]

\* the two recursive calls of the vertical branch
VerticalLeft(f, left_width, left_indices) ==
    Region(f.x, f.y, left_width, f.height, left_indices, f.depth + 1)

\* the right call started at x instead of x + left_width
VerticalRight_NoShift(f, left_width, right_indices) ==
    Region(f.x, f.y, RSub(f.width, left_width), f.height,
           right_indices, f.depth + 1)

\* the right call given the whole width instead of width - left_width
VerticalRight_FullWidth(f, left_width, right_indices) ==
    Region(RAdd(f.x, left_width), f.y, f.width, f.height,
           right_indices, f.depth + 1)

VerticalRight(f, left_width, right_indices) ==
    Region(RAdd(f.x, left_width), f.y, RSub(f.width, left_width), f.height,
           right_indices, f.depth + 1)

\* the two recursive calls of the horizontal branch
HorizontalBottom(f, bottom_height, left_indices) ==
    Region(f.x, f.y, f.width, bottom_height, left_indices, f.depth + 1)

\* the top call given bottom_height as its height instead of the remainder
HorizontalTop_SameHeight(f, bottom_height, right_indices) ==
    Region(f.x, RAdd(f.y, bottom_height), f.width, bottom_height,
           right_indices, f.depth + 1)

HorizontalTop(f, bottom_height, right_indices) ==
    Region(f.x, RAdd(f.y, bottom_height), f.width,
           RSub(f.height, bottom_height), right_indices, f.depth + 1)

\* len(labels) > len(ratios): too few labels go unnoticed
LabelsMismatch_OnlyExcess(lab, rs) ==
    (IF lab.given THEN lab.len ELSE Len(rs)) > Len(rs)

\* len(labels) != len(ratios), after the default labels are filled in
LabelsMismatch(lab, rs) ==
    (IF lab.given THEN lab.len ELSE Len(rs)) # Len(rs)

\* ------------------------------------------------------------------ state
VARIABLES
    ratios,       \* the argument: a sequence of rationals
    labels,       \* the labels argument: [given, len]; given = FALSE is None
    entry,        \* the function called: "draw" or "layout"
    pc,           \* position of the call
    rectangles,   \* the list rectangles of layout_rectangles_exact
    stack,        \* pending split_area calls, innermost first
    splits,       \* log of the split_area calls on other than one index
    writes,       \* number of assignments to each entry of rectangles
    maxDepth,     \* deepest split_area nesting so far
    layoutCalls,  \* number of calls of layout_rectangles_exact
    figure,       \* TRUE once the figure and the square border exist
    drawn,        \* indices whose rectangle patch has been drawn
    result        \* the value returned to the caller, None before

vars == <<ratios, labels, entry, pc, rectangles, stack, splits, writes,
          maxDepth, layoutCalls, figure, drawn, result>>

\* the ratios a caller may pass: k / Denom for k <= MaxUnit, and 1
RatioValues == {Frac(k, Denom) : k \in (0..MaxUnit) \cup {Denom}}

\* labels=None
NoLabels == [given |-> FALSE, len |-> 0]

LabelArgs ==
    {NoLabels}
        \cup {[given |-> TRUE, len |-> l] : l \in 0..MaxLabels}


\* nothing has been called yet
Init ==
    /\ ratios = <<>>
    /\ labels = NoLabels
    /\ entry = "none"
    /\ pc = "idle"
    /\ rectangles = <<>>
    /\ stack = <<>>
    /\ splits = <<>>
    /\ writes = <<>>
    /\ maxDepth = 0
    /\ layoutCalls = 0
    /\ figure = FALSE
    /\ drawn = {}
    /\ result = None

\* ---------------------------------------------------------------- actions
\* the caller builds the argument list, one ratio at a time
PrepareRatio ==
    /\ pc = "idle"
    /\ Len(ratios) < MaxN
    /\ \E r \in RatioValues : ratios' = Append(ratios, r)
    /\ UNCHANGED <<labels, entry, pc, rectangles, stack, splits, writes,
                   maxDepth, layoutCalls, figure, drawn, result>>

\* the caller invokes draw_rectangles_by_ratio(ratios, labels), as line 240
CallDraw ==
    /\ pc = "idle"
    /\ labels' \in LabelArgs
    /\ entry' = "draw"
    /\ pc' = "check_sum"
    /\ UNCHANGED <<ratios, rectangles, stack, splits, writes, maxDepth,
                   layoutCalls, figure, drawn, result>>

\* the caller invokes layout_rectangles_exact(ratios) directly, as line 243
CallLayout ==
    /\ pc = "idle"
    /\ entry' = "layout"
    /\ pc' = "layout"
    /\ UNCHANGED <<ratios, labels, rectangles, stack, splits, writes,
                   maxDepth, layoutCalls, figure, drawn, result>>

\* draw_rectangles_by_ratio, lines 20-22
DrawCheckSum ==
    /\ pc = "check_sum"
    /\ pc' = IF ~IsClose(SumAll(ratios), One) THEN "ValueError"
             ELSE "check_labels"
    /\ UNCHANGED <<ratios, labels, entry, rectangles, stack, splits, writes,
                   maxDepth, layoutCalls, figure, drawn, result>>

\* draw_rectangles_by_ratio, lines 25-30
DrawCheckLabels ==
    /\ pc = "check_labels"
    /\ pc' = IF LabelsMismatch(labels, ratios) THEN "ValueError"
             ELSE "setup"
    /\ UNCHANGED <<ratios, labels, entry, rectangles, stack, splits, writes,
                   maxDepth, layoutCalls, figure, drawn, result>>

\* draw_rectangles_by_ratio, lines 33-37: the figure and the square border
DrawSetup ==
    /\ pc = "setup"
    /\ figure' = TRUE
    /\ pc' = "layout"
    /\ UNCHANGED <<ratios, labels, entry, rectangles, stack, splits, writes,
                   maxDepth, layoutCalls, drawn, result>>

\* layout_rectangles_exact, lines 92 and 151-155: allocate the list, sort
\* the indices and make the initial call split_area(0, 0, 1, 1, indices)
LayoutBegin ==
    /\ pc = "layout"
    /\ layoutCalls' = layoutCalls + 1
    /\ rectangles' = [i \in 1..Len(ratios) |-> None]
    /\ writes' = [i \in 1..Len(ratios) |-> 0]
    /\ stack' = <<Region(Zero, Zero, One, One, SortedIndices(ratios), 1)>>
    /\ maxDepth' = 1
    /\ pc' = "split"
    /\ UNCHANGED <<ratios, labels, entry, splits, figure, drawn, result>>

\* split_area, lines 103-106: one index left, it gets the whole region
SplitLeaf ==
    /\ pc = "split"
    /\ stack # <<>>
    /\ LET f == Head(stack)
       IN  /\ Len(f.indices) = 1
           /\ rectangles' = [rectangles EXCEPT
                  ![f.indices[1]] = <<f.x, f.y, f.width, f.height>>]
           /\ writes' = [writes EXCEPT ![f.indices[1]] = @ + 1]
    /\ stack' = Tail(stack)
    /\ UNCHANGED <<ratios, labels, entry, pc, splits, maxDepth, layoutCalls,
                   figure, drawn, result>>

\* split_area, lines 108-148: choose the split point, cut the region and
\* recurse into the first part, then into the second
SplitNode ==
    /\ pc = "split"
    /\ stack # <<>>
    /\ LET f == Head(stack)
           split_point == SplitPoint(ratios, f.indices)
           left_indices == LeftIndices(f.indices, split_point)
           right_indices == RightIndices(f.indices, split_point)
           left_ratio == SumOver(ratios, left_indices)
           right_ratio == SumOver(ratios, right_indices)
           vertical == IsVerticalSplit(f.width, f.height)
           share == FirstShare(IF vertical THEN f.width ELSE f.height,
                               left_ratio, right_ratio)
           first == IF vertical THEN VerticalLeft(f, share, left_indices)
                    ELSE HorizontalBottom(f, share, left_indices)
           second == IF vertical THEN VerticalRight(f, share, right_indices)
                     ELSE HorizontalTop(f, share, right_indices)
           call == [region |-> f, split_point |-> split_point,
                    left_ratio |-> left_ratio, right_ratio |-> right_ratio,
                    vertical |-> vertical, children |-> <<>>]
       IN  /\ Len(f.indices) # 1
           /\ IF RAdd(left_ratio, right_ratio) = Zero
              THEN \* the division of lines 141 / 146 raises
                   /\ pc' = "ZeroDivisionError"
                   /\ splits' = Append(splits, call)
                   /\ UNCHANGED <<stack, maxDepth>>
              ELSE /\ pc' = pc
                   /\ splits' = Append(splits,
                          [call EXCEPT !.children = <<first, second>>])
                   /\ stack' = <<first, second>> \o Tail(stack)
                   /\ maxDepth' = IF f.depth + 1 > maxDepth THEN f.depth + 1
                                  ELSE maxDepth
    /\ UNCHANGED <<ratios, labels, entry, rectangles, writes, layoutCalls,
                   figure, drawn, result>>

\* layout_rectangles_exact, line 157: the initial call has returned
LayoutReturn ==
    /\ pc = "split"
    /\ stack = <<>>
    /\ IF entry = "draw"
       THEN pc' = "render" /\ UNCHANGED result
       ELSE pc' = "done" /\ result' = rectangles
    /\ UNCHANGED <<ratios, labels, entry, rectangles, stack, splits, writes,
                   maxDepth, layoutCalls, figure, drawn>>

\* draw_rectangles_by_ratio, lines 43-79: one patch per positive ratio
DrawRender ==
    /\ pc = "render"
    /\ drawn' = {i \in 1..Len(ratios) : ~RLe(ratios[i], Zero)}
    /\ result' = <<"fig", "ax">>
    /\ pc' = "done"
    /\ UNCHANGED <<ratios, labels, entry, rectangles, stack, splits, writes,
                   maxDepth, layoutCalls, figure>>

Next ==
    \/ PrepareRatio
    \/ CallDraw
    \/ CallLayout
    \/ DrawCheckSum
    \/ DrawCheckLabels
    \/ DrawSetup
    \/ LayoutBegin
    \/ SplitLeaf
    \/ SplitNode
    \/ LayoutReturn
    \/ DrawRender

Spec == Init /\ [][Next]_vars

\* ------------------------------------------------- vocabulary of the claims
N == Len(ratios)

AllPositive == \A i \in 1..N : ratios[i].n > 0

HasZero == \E i \in 1..N : ratios[i].n = 0

SumsToOne == SumAll(ratios) = One

\* a non-empty sequence of positive ratios summing to 1
ValidInput == N >= 1 /\ AllPositive /\ SumsToOne

\* abs(sum - 1) > 1e-9 * max(abs(sum), 1), for the sum p/q: the difference
\* is |p - q| / q and the maximum is max(p, q) / q
SumOutOfTolerance ==
    LET sum == SumAll(ratios)
        big == IF sum.n > sum.d THEN sum.n ELSE sum.d
    IN  Abs(sum.n - sum.d) > big \div 1000000000

LabelCountDiffers == labels.given /\ labels.len # N

\* layout_rectangles_exact has returned its list
LayoutDone == pc \in {"render", "done"}

Assigned == {i \in 1..Len(rectangles) : rectangles[i] # None}

Area(rect) == RMul(rect[3], rect[4])

\* the overlap test of example_usage, lines 256-257
Overlap(r1, r2) ==
    /\ RLt(r1[1], RAdd(r2[1], r2[3]))
    /\ RGt(RAdd(r1[1], r1[3]), r2[1])
    /\ RLt(r1[2], RAdd(r2[2], r2[4]))
    /\ RGt(RAdd(r1[2], r1[4]), r2[2])

InUnitSquare(x, y, width, height) ==
    /\ RGe(x, Zero) /\ RGe(y, Zero) /\ RGe(width, Zero) /\ RGe(height, Zero)
    /\ RLe(RAdd(x, width), One) /\ RLe(RAdd(y, height), One)

RECURSIVE SumAreas(_)
SumAreas(rects) ==
    IF rects = <<>> THEN Zero
    ELSE RAdd(Area(Head(rects)), SumAreas(Tail(rects)))

SplitIndices == 1..Len(splits)

\* ----------------------------------------------------------------- claims

C2_AreaMatchesRatio ==
    (ValidInput /\ LayoutDone) =>
        /\ Len(rectangles) = N
        /\ \A i \in 1..N :
              rectangles[i] # None /\ Area(rectangles[i]) = ratios[i]

\* a finished layout whose sort moved an index and whose ratios differ
C2_Witness ==
    /\ ValidInput /\ LayoutDone /\ N >= 3
    /\ \E i \in 1..N : SortedIndices(ratios)[i] # i
    /\ \E i \in 1..N : \E j \in 1..N : ratios[i] # ratios[j]

\* C3: for a valid ratio sequence summing to 1, the areas of the returned
\* rectangles add up to 1, the area of the unit square.
C3_TotalArea ==
    (ValidInput /\ LayoutDone) => SumAreas(rectangles) = One

\* a finished layout of four or more rectangles
C3_Witness == ValidInput /\ LayoutDone /\ N >= 4

\* C4: for a non-empty sequence of positive ratios summing to 1, every
\* rectangle written and every region passed to split_area lies inside the
\* unit square: x, y, width, height >= 0, x + width <= 1, y + height <= 1.
C4_InsideUnitSquare ==
    ValidInput =>
        /\ \A i \in Assigned :
              InUnitSquare(rectangles[i][1], rectangles[i][2],
                           rectangles[i][3], rectangles[i][4])
        /\ \A k \in 1..Len(stack) :
              InUnitSquare(stack[k].x, stack[k].y,
                           stack[k].width, stack[k].height)
        /\ \A a \in SplitIndices :
              InUnitSquare(splits[a].region.x, splits[a].region.y,
                           splits[a].region.width, splits[a].region.height)

\* a region passed to split_area whose lower left corner is off both axes
\* and which reaches the right edge of the square, with a rectangle written
C4_Witness ==
    /\ ValidInput /\ Assigned # {}
    /\ \E k \in 1..Len(stack) :
          /\ RGt(stack[k].x, Zero) /\ RGt(stack[k].y, Zero)
          /\ RAdd(stack[k].x, stack[k].width) = One

\* C5 as stated: layout_rectangles_exact fails with an invalid-input error,
\* returning no rectangles, whenever the ratios do not sum to 1 within
\* relative tolerance 1e-9.
C5_LayoutRejectsBadSum ==
    (entry = "layout" /\ N >= 2 /\ AllPositive /\ SumOutOfTolerance) =>
        (~LayoutDone /\ result = None)

\* C5 as amended: it is draw_rectangles_by_ratio that fails with the
\* invalid-input error (ValueError) whenever the ratios do not sum to 1
\* within relative tolerance 1e-9: the call gets no further than the sum
\* check and returns nothing.
C5_DrawRejectsBadSum ==
    (entry = "draw" /\ SumOutOfTolerance) =>
        /\ pc \in {"idle", "check_sum", "ValueError"}
        /\ result = None

\* draw_rectangles_by_ratio has raised on three ratios that sum to less
\* than 1, with matching labels
C5_Witness ==
    /\ entry = "draw" /\ pc = "ValueError"
    /\ N = 3 /\ AllPositive /\ RLt(SumAll(ratios), One)
    /\ ~LabelCountDiffers

\* C6: in draw_rectangles_by_ratio both validation failures (sum out of
\* tolerance, label count different from ratio count) are raised before any
\* layout work: layout_rectangles_exact is never invoked, no region is
\* split, no rectangle is computed or drawn, nothing is returned.
C6_ValidationBeforeLayout ==
    (entry = "draw" /\ (SumOutOfTolerance \/ LabelCountDiffers)) =>
        /\ layoutCalls = 0
        /\ rectangles = <<>> /\ stack = <<>> /\ splits = <<>>
        /\ ~figure /\ drawn = {}
        /\ result = None
        /\ pc \in {"idle", "check_sum", "check_labels", "ValueError"}

\* the label check has raised: the ratios are valid, the label count is not
C6_Witness ==
    /\ entry = "draw" /\ pc = "ValueError"
    /\ ValidInput /\ LabelCountDiffers

\* the parts of C7 that hold in every state
C7_Safe ==
    N >= 1 =>
        /\ \A a \in SplitIndices :
              LET len == Len(splits[a].region.indices)
                  k == splits[a].split_point
              IN  /\ len >= 2
                  /\ 1 <= k /\ k <= len - 1
                  /\ splits[a].children # <<>> =>
                        /\ Len(splits[a].children[1].indices) = k
                        /\ Len(splits[a].children[2].indices) = len - k
                        /\ splits[a].children[1].indices
                              \o splits[a].children[2].indices
                                  = splits[a].region.indices
        /\ maxDepth <= N
        /\ \A k \in 1..Len(stack) : stack[k].depth <= N
        /\ LayoutDone =>
              /\ Len(rectangles) = N
              /\ \A i \in 1..N : rectangles[i] # None /\ writes[i] = 1

\* 2 * len(indices) - 1 summed over the pending split_area calls: the number
\* of split_area calls still to be made for them
RECURSIVE PendingCalls(_)
PendingCalls(st) ==
    IF st = <<>> THEN 0
    ELSE 2 * Len(Head(st).indices) - 1 + PendingCalls(Tail(st))

\* an upper bound on the number of steps the call in progress still takes
StepsLeft ==
    CASE pc = "check_sum" -> 2 * N + 6
      [] pc = "check_labels" -> 2 * N + 5
      [] pc = "setup" -> 2 * N + 4
      [] pc = "layout" -> 2 * N + 3
      [] pc = "split" -> 2 + PendingCalls(stack)
      [] pc = "render" -> 1
      [] OTHER -> 0

Prefix(indices, k) == SumOver(ratios, SubSeq(indices, 1, k))

\* C8: in every split_area call on two or more indices the split point makes
\* the left group's sum as close as possible to half of the region's total:
\* no k in 1..len(indices)-1 has a prefix sum strictly closer to total / 2.
C8_BestSplitPoint ==
    ValidInput =>
        \A a \in SplitIndices :
            LET ind == splits[a].region.indices
                target == RDiv(SumOver(ratios, ind), Two)
                Dist(k) == RAbs(RSub(Prefix(ind, k), target))
            IN  \A k \in 1..(Len(ind) - 1) :
                    ~RLt(Dist(k), Dist(splits[a].split_point))

\* C9: for a ratio sequence summing to 1 that contains zeros the layout is
\* either rejected before it starts or completes with N rectangles, a
\* zero-area one for each zero ratio; it never fails inside the recursion
\* with a division by zero.
C9_ZeroRatiosNoCrash ==
    (N >= 1 /\ SumsToOne /\ HasZero) =>
        /\ pc # "ZeroDivisionError"
        /\ LayoutDone =>
              \A i \in 1..N :
                  /\ rectangles[i] # None
                  /\ ratios[i] = Zero => Area(rectangles[i]) = Zero

\* the geometry of the two children of split a for a vertical cut
CutIsVertical(a) ==
    LET f == splits[a].region
        c1 == splits[a].children[1]
        c2 == splits[a].children[2]
        w1 == RDiv(RMul(f.width, splits[a].left_ratio),
                   RAdd(splits[a].left_ratio, splits[a].right_ratio))
    IN  /\ c1.x = f.x /\ c1.y = f.y /\ c1.width = w1 /\ c1.height = f.height
        /\ c2.x = RAdd(f.x, w1) /\ c2.y = f.y
        /\ c2.width = RSub(f.width, w1) /\ c2.height = f.height

\* the geometry of the two children of split a for a horizontal cut
CutIsHorizontal(a) ==
    LET f == splits[a].region
        c1 == splits[a].children[1]
        c2 == splits[a].children[2]
        h1 == RDiv(RMul(f.height, splits[a].left_ratio),
                   RAdd(splits[a].left_ratio, splits[a].right_ratio))
    IN  /\ c1.x = f.x /\ c1.y = f.y /\ c1.width = f.width /\ c1.height = h1
        /\ c2.x = f.x /\ c2.y = RAdd(f.y, h1)
        /\ c2.width = f.width /\ c2.height = RSub(f.height, h1)

\* C10 as stated: every split cuts the wider dimension, vertically when
\* width >= height and horizontally when height > width, the first child
\* getting left_sum / (left_sum + right_sum) of the cut dimension.
C10_CutsWiderDimension ==
    ValidInput =>
        \A a \in SplitIndices :
            splits[a].children # <<>> =>
                IF RGe(splits[a].region.width, splits[a].region.height)
                THEN CutIsVertical(a)
                ELSE CutIsHorizontal(a)

\* C10 as amended: every split is vertical when width >= 0.7 * height and
\* horizontal when width < 0.7 * height, the first child getting
\* left_sum / (left_sum + right_sum) of the cut dimension and the second
\* child the remainder.
C10_CutsByThreshold ==
    ValidInput =>
        \A a \in SplitIndices :
            splits[a].children # <<>> =>
                IF RGe(splits[a].region.width,
                       RMul(splits[a].region.height, [n |-> 7, d |-> 10]))
                THEN CutIsVertical(a)
                ELSE CutIsHorizontal(a)

\* a region taller than wide that was nevertheless cut vertically, and a
\* region cut horizontally, in one layout
C10_Witness ==
    /\ ValidInput
    /\ \E a \in SplitIndices :
          /\ RGt(splits[a].region.height, splits[a].region.width)
          /\ splits[a].children # <<>> /\ CutIsVertical(a)
    /\ \E b \in SplitIndices :
          splits[b].children # <<>> /\ CutIsHorizontal(b)

====
